---- MODULE Spec2Model ----
(***************************************************************************)
(* Model of luxojr.py: the TorqueToPD phase selector and the polling loop  *)
(* of main() that drives one moteus controller through it.                 *)
(*                                                                         *)
(* All real-valued quantities of the program (seconds, revolutions, Nm,    *)
(* gain scales) are multiplied by 10 and kept as integers: t_begin = 0.4   *)
(* is 4, pd_begin = 2.0 is 20, reset_torque = 0.2 is 2.                    *)
(***************************************************************************)
EXTENDS Integers, Sequences, FiniteSets, TLC

VARIABLES
    pc,                 \* position of main(), or "selector" for the selector alone
    cfg,                \* the fields TorqueToPD.__init__ stores (lines 101-113)
    time_since_start,   \* main: time_since_start (line 61), the selector's t
    last_position,      \* main: last_position (line 48, 68), the selector's pos
    past_pd_threshold,  \* TorqueToPD.past_pd_threshold (line 111, 129)
    data,               \* module-level list data (line 32, 70)
    log,                \* the calls made on the controller c, in order, with outcome
    sink,               \* what was handed to pickle.dump (line 84), in order
    err                 \* the exception propagating out of main(), "none" if none

vars == <<pc, cfg, time_since_start, last_position, past_pd_threshold,
          data, log, sink, err>>

-----------------------------------------------------------------------------
(* Bounds of the model *)

\* largest advance of the sampled clock between two samples, in 0.1 s
MaxStep == 4

\* number of loop iterations after which the next clock sample is past the deadline
MaxIter == 3

-----------------------------------------------------------------------------
(* Configuration *)

\* default of the kp_scale parameter
kp_scale_default == 10

\* default of the kd_scale parameter
kd_scale_default == 10

\* default of the reset_torque parameter
reset_torque_default == 2

\* the TorqueToPD constructed by main(), lines 50-57, with the defaults of 95-99
MainCfg ==
    [t_begin          |-> 4,
     t_reset          |-> 8,
     pd_begin         |-> 20,
     pd_target        |-> 25,
     torque           |-> 15,
     kp_scale         |-> kp_scale_default,
     kd_scale         |-> kd_scale_default,
     maximum_torque   |-> 15,
     termination_time |-> 12,
     reset_torque     |-> reset_torque_default]

\* positions the controller may report in state.values[POSITION]: just
\* below pd_begin and at it
Positions == {MainCfg.pd_begin - 1, MainCfg.pd_begin}

\* positions the selector alone is called with
SelPositions == {0, MainCfg.pd_begin - 1, MainCfg.pd_begin, MainCfg.pd_target}

\* elapsed times the selector alone is called with
Times == 0 .. (MainCfg.termination_time + MaxStep)

\* ways an awaited controller call can end without returning
Failures == {"comm", "cancel"}

-----------------------------------------------------------------------------
(* The phase selector, TorqueToPD.__call__ *)

\* keyword arguments of controller.set_position; an argument that is not
\* passed is the empty sequence, one that is passed is a one-element sequence
SetPosition(phase, position, kp, kd, maxtorque, ff) ==
    [phase              |-> phase,
     position           |-> position,
     kp_scale           |-> kp,
     kd_scale           |-> kd,
     maximum_torque     |-> maxtorque,
     feedforward_torque |-> ff,
     query              |-> TRUE]

\* line 117-121
HoldZero(c) ==
    SetPosition("hold_zero", <<0>>, c.kp_scale, c.kd_scale, c.maximum_torque, <<>>)

\* line 123-127
FeedforwardPush(c) ==
    SetPosition("feedforward_push", <<>>, 0, 0, c.maximum_torque, <<c.torque>>)

\* line 130-135
PositionTarget(c) ==
    SetPosition("position_target", <<c.pd_target>>, c.kp_scale, c.kd_scale,
                c.maximum_torque, <<>>)

\* the else branch passing self.maximum_torque, as the other branches do
TorqueLimitedReset_FullTorque(c) ==
    SetPosition("torque_limited_reset", <<0>>, c.kp_scale, c.kd_scale,
                c.maximum_torque, <<>>)

\* line 137-142
TorqueLimitedReset(c) ==
    SetPosition("torque_limited_reset", <<0>>, c.kp_scale, c.kd_scale,
                c.reset_torque, <<>>)

\* the chain with the position test placed before the t_begin test
TorqueToPD_PositionFirst(c, pos, t, latch) ==
    IF pos < c.pd_begin /\ ~latch
    THEN [cmd |-> FeedforwardPush(c), latch |-> latch]
    ELSE IF t < c.t_begin
    THEN [cmd |-> HoldZero(c), latch |-> latch]
    ELSE IF t < c.t_reset
    THEN [cmd |-> PositionTarget(c), latch |-> TRUE]
    ELSE [cmd |-> TorqueLimitedReset(c), latch |-> latch]

\* the chain whose second test leaves out "and not self.past_pd_threshold"
TorqueToPD_NoLatchTest(c, pos, t, latch) ==
    IF t < c.t_begin
    THEN [cmd |-> HoldZero(c), latch |-> latch]
    ELSE IF pos < c.pd_begin
    THEN [cmd |-> FeedforwardPush(c), latch |-> latch]
    ELSE IF t < c.t_reset
    THEN [cmd |-> PositionTarget(c), latch |-> TRUE]
    ELSE [cmd |-> TorqueLimitedReset(c), latch |-> latch]

\* the chain whose third branch stores the comparison instead of True
TorqueToPD_LatchFollowsPosition(c, pos, t, latch) ==
    IF t < c.t_begin
    THEN [cmd |-> HoldZero(c), latch |-> latch]
    ELSE IF pos < c.pd_begin /\ ~latch
    THEN [cmd |-> FeedforwardPush(c), latch |-> latch]
    ELSE IF t < c.t_reset
    THEN [cmd |-> PositionTarget(c), latch |-> (pos >= c.pd_begin)]
    ELSE [cmd |-> TorqueLimitedReset(c), latch |-> latch]

\* the if/elif chain of __call__: the command sent and the latch afterwards
TorqueToPD(c, pos, t, latch) ==
    IF t < c.t_begin
    THEN [cmd |-> HoldZero(c), latch |-> latch]
    ELSE IF pos < c.pd_begin /\ ~latch
    THEN [cmd |-> FeedforwardPush(c), latch |-> latch]
    ELSE IF t < c.t_reset
    THEN [cmd |-> PositionTarget(c), latch |-> TRUE]
    ELSE [cmd |-> TorqueLimitedReset(c), latch |-> latch]

-----------------------------------------------------------------------------
(* Calls on the controller *)

\* the argument record of a call that takes none
NoArgs == SetPosition("none", <<>>, 0, 0, 0, <<>>)

\* c.set_stop() awaited, not yet returned
StopCall == [call |-> "set_stop", cmd |-> NoArgs, res |-> "pending"]

\* c.set_position(**cmd) awaited, not yet returned
MotionCall(cmd) == [call |-> "set_position", cmd |-> cmd, res |-> "pending"]

\* the outstanding call (the last of the log) ends with outcome r
Finish(l, r) == [l EXCEPT ![Len(l)].res = r]

-----------------------------------------------------------------------------
(* main() *)

Init ==
    /\ pc = "start"
    /\ cfg = MainCfg
    /\ time_since_start = 0
    /\ last_position = 0
    /\ past_pd_threshold = FALSE
    /\ data = <<>>
    /\ log = <<>>
    /\ sink = <<>>
    /\ err = "none"

\* line 42: await c.set_stop() is entered
InitialStop ==
    /\ pc = "start"
    /\ log' = Append(log, StopCall)
    /\ pc' = "init_stop"
    /\ UNCHANGED <<cfg, time_since_start, last_position, past_pd_threshold,
                   data, sink, err>>

\* line 42 returns; lines 44-57 run
InitialStopReturns ==
    /\ pc = "init_stop"
    /\ log' = Finish(log, "ok")
    /\ last_position' = 0
    /\ cfg' = MainCfg
    /\ past_pd_threshold' = FALSE
    /\ pc' = "loop"
    /\ UNCHANGED <<time_since_start, data, sink, err>>

\* the initial stop's failure swallowed, the loop entered all the same
InitialStopRaises_Swallowed(e) ==
    /\ pc = "init_stop"
    /\ log' = Finish(log, e)
    /\ last_position' = 0
    /\ pc' = "loop"
    /\ UNCHANGED <<cfg, time_since_start, past_pd_threshold, data, sink, err>>

\* line 42 raises or is cancelled: control goes to the finally block
InitialStopRaises(e) ==
    /\ pc = "init_stop"
    /\ log' = Finish(log, e)
    /\ err' = e
    /\ pc' = "finally"
    /\ UNCHANGED <<cfg, time_since_start, last_position, past_pd_threshold,
                   data, sink>>

\* the values loop_start - timestamp_begin_loop can take at the next sample
NextSamples ==
    IF Len(data) < MaxIter
    THEN time_since_start .. (time_since_start + MaxStep)
    ELSE {cfg.termination_time + 1}

\* the next command sent without awaiting the response to the previous one
LoopCommand_NoAwait ==
    /\ pc \in {"loop", "command"}
    /\ Len(log) <= MaxIter + 1
    /\ \E t \in NextSamples :
         LET r == TorqueToPD(cfg, last_position, t, past_pd_threshold) IN
           /\ time_since_start' = t
           /\ past_pd_threshold' = r.latch
           /\ log' = Append(log, MotionCall(r.cmd))
    /\ pc' = "command"
    /\ UNCHANGED <<cfg, last_position, data, sink, err>>

\* lines 60-67: the clock is sampled, the selector picks its branch and
\* awaits controller.set_position (at most MaxIter + 1 iterations are followed)
LoopCommand ==
    /\ pc = "loop"
    /\ Len(data) <= MaxIter
    /\ \E t \in NextSamples :
         LET r == TorqueToPD(cfg, last_position, t, past_pd_threshold) IN
           /\ time_since_start' = t
           /\ past_pd_threshold' = r.latch
           /\ log' = Append(log, MotionCall(r.cmd))
    /\ pc' = "command"
    /\ UNCHANGED <<cfg, last_position, data, sink, err>>

\* the deadline test written with >= instead of >
CommandReturns_ExitAtDeadline(p) ==
    /\ pc = "command"
    /\ log' = Finish(log, "ok")
    /\ last_position' = p
    /\ data' = Append(data, <<time_since_start, p>>)
    /\ pc' = IF time_since_start >= cfg.termination_time THEN "finally" ELSE "loop"
    /\ UNCHANGED <<cfg, time_since_start, past_pd_threshold, sink, err>>

\* the deadline test placed before data.append: the last sample is lost
CommandReturns_ExitBeforeAppend(p) ==
    /\ pc = "command"
    /\ log' = Finish(log, "ok")
    /\ last_position' = p
    /\ data' = IF time_since_start > cfg.termination_time
               THEN data
               ELSE Append(data, <<time_since_start, p>>)
    /\ pc' = IF time_since_start > cfg.termination_time THEN "finally" ELSE "loop"
    /\ UNCHANGED <<cfg, time_since_start, past_pd_threshold, sink, err>>

\* the loop without lines 76-77
CommandReturns_NoDeadlineTest(p) ==
    /\ pc = "command"
    /\ log' = Finish(log, "ok")
    /\ last_position' = p
    /\ data' = Append(data, <<time_since_start, p>>)
    /\ pc' = "loop"
    /\ UNCHANGED <<cfg, time_since_start, past_pd_threshold, sink, err>>

\* the loop without line 68: the reported position is not fed back
CommandReturns_PositionNotStored(p) ==
    /\ pc = "command"
    /\ log' = Finish(log, "ok")
    /\ data' = Append(data, <<time_since_start, p>>)
    /\ pc' = IF time_since_start > cfg.termination_time THEN "finally" ELSE "loop"
    /\ UNCHANGED <<cfg, time_since_start, last_position, past_pd_threshold,
                   sink, err>>

\* lines 67-77: set_position returns a state reporting position p
CommandReturns(p) ==
    /\ pc = "command"
    /\ log' = Finish(log, "ok")
    /\ last_position' = p
    /\ data' = Append(data, <<time_since_start, p>>)
    /\ pc' = IF time_since_start > cfg.termination_time THEN "finally" ELSE "loop"
    /\ UNCHANGED <<cfg, time_since_start, past_pd_threshold, sink, err>>

\* the loop without its try/finally: the exception leaves main() at once
CommandRaises_NoFinally(e) ==
    /\ pc = "command"
    /\ log' = Finish(log, e)
    /\ err' = e
    /\ pc' = "done"
    /\ UNCHANGED <<cfg, time_since_start, last_position, past_pd_threshold,
                   data, sink>>

\* a failed command caught inside the loop and the loop continued
CommandRaises_Retried(e) ==
    /\ pc = "command"
    /\ log' = Finish(log, e)
    /\ pc' = "loop"
    /\ UNCHANGED <<cfg, time_since_start, last_position, past_pd_threshold,
                   data, sink, err>>

\* line 67 raises or is cancelled: control goes to the finally block
CommandRaises(e) ==
    /\ pc = "command"
    /\ log' = Finish(log, e)
    /\ err' = e
    /\ pc' = "finally"
    /\ UNCHANGED <<cfg, time_since_start, last_position, past_pd_threshold,
                   data, sink>>

\* the finally block with lines 83-84 placed before line 82, the dump failing
FinalStop_FlushFirst ==
    /\ pc = "finally"
    /\ sink' = Append(sink, [samples |-> data, res |-> "io"])
    /\ err' = "io"
    /\ pc' = "done"
    /\ UNCHANGED <<cfg, time_since_start, last_position, past_pd_threshold,
                   data, log>>

\* line 82: await c.set_stop() is entered in the finally block
FinalStop ==
    /\ pc = "finally"
    /\ log' = Append(log, StopCall)
    /\ pc' = "final_stop"
    /\ UNCHANGED <<cfg, time_since_start, last_position, past_pd_threshold,
                   data, sink, err>>

\* line 82 returns
FinalStopReturns ==
    /\ pc = "final_stop"
    /\ log' = Finish(log, "ok")
    /\ pc' = "flush"
    /\ UNCHANGED <<cfg, time_since_start, last_position, past_pd_threshold,
                   data, sink, err>>

\* line 82 raises or is cancelled: the exception leaves the finally block,
\* lines 83-84 do not run
FinalStopRaises(e) ==
    /\ pc = "final_stop"
    /\ log' = Finish(log, e)
    /\ err' = e
    /\ pc' = "done"
    /\ UNCHANGED <<cfg, time_since_start, last_position, past_pd_threshold,
                   data, sink>>

\* lines 83-84: data is pickled to log.pickle; the pending exception, if
\* any, then propagates
Flush ==
    /\ pc = "flush"
    /\ sink' = Append(sink, [samples |-> data, res |-> "ok"])
    /\ pc' = "done"
    /\ UNCHANGED <<cfg, time_since_start, last_position, past_pd_threshold,
                   data, log, err>>

\* lines 83-84 raise (open or pickle.dump fails)
FlushRaises ==
    /\ pc = "flush"
    /\ sink' = Append(sink, [samples |-> data, res |-> "io"])
    /\ err' = "io"
    /\ pc' = "done"
    /\ UNCHANGED <<cfg, time_since_start, last_position, past_pd_threshold,
                   data, log>>

Next ==
    \/ InitialStop
    \/ InitialStopReturns
    \/ \E e \in Failures : InitialStopRaises(e)
    \/ LoopCommand
    \/ \E p \in Positions : CommandReturns(p)
    \/ \E e \in Failures : CommandRaises(e)
    \/ FinalStop
    \/ FinalStopReturns
    \/ \E e \in Failures : FinalStopRaises(e)
    \/ Flush
    \/ FlushRaises

Spec == Init /\ [][Next]_vars

-----------------------------------------------------------------------------
(* The selector alone: any sequence of calls on one TorqueToPD object *)

SelInit ==
    /\ pc = "selector"
    /\ cfg = MainCfg
    /\ time_since_start = 0
    /\ last_position = 0
    /\ past_pd_threshold = FALSE
    /\ data = <<>>
    /\ log = <<>>
    /\ sink = <<>>
    /\ err = "none"

\* one call torque_to_pd(pos, t) whose set_position returns
SelectorCall ==
    /\ pc = "selector"
    /\ \E t \in Times, pos \in SelPositions :
         LET r == TorqueToPD(cfg, pos, t, past_pd_threshold) IN
           /\ time_since_start' = t
           /\ last_position' = pos
           /\ past_pd_threshold' = r.latch
           /\ log' = <<Finish(<<MotionCall(r.cmd)>>, "ok")[1]>>
    /\ UNCHANGED <<pc, cfg, data, sink, err>>

SelNext == SelectorCall

SelSpec == SelInit /\ [][SelNext]_vars

-----------------------------------------------------------------------------
(* main() against a simulated controller whose position rises linearly *)

\* the reported position 0.1*t s after the start of the loop: a ramp from 0
\* to 3.0 revolutions over 1.2 s, rounded down to 0.1 revolution
Ramp(t) == (30 * t) \div 12

\* set_position returns the ramp's position at the iteration's sample time
ScenarioReturns == CommandReturns(Ramp(time_since_start))

ScenarioNext ==
    \/ InitialStop
    \/ InitialStopReturns
    \/ LoopCommand
    \/ ScenarioReturns
    \/ FinalStop
    \/ FinalStopReturns
    \/ Flush

ScenarioSpec == Init /\ [][ScenarioNext]_vars

-----------------------------------------------------------------------------
(* main() when every step that can be taken is eventually taken: the loop  *)
(* runs on, every awaited call ends, the sampled clock passes the deadline *)

LiveSpec == Init /\ [][Next]_vars /\ WF_vars(Next)

-----------------------------------------------------------------------------
(* The selector alone, constructed with any configuration *)

\* the invariant the configuration is documented to satisfy
ValidConfig(c) ==
    /\ 0 <= c.t_begin
    /\ c.t_begin <= c.t_reset
    /\ c.t_reset <= c.termination_time
    /\ c.maximum_torque > 0

\* arguments TorqueToPD.__init__ is called with
Configs ==
    {MainCfg,
     [MainCfg EXCEPT !.t_begin = MainCfg.t_reset, !.t_reset = MainCfg.t_begin],
     [MainCfg EXCEPT !.termination_time = MainCfg.t_reset - 1]}

CfgInit ==
    /\ pc = "selector"
    /\ cfg \in Configs
    /\ time_since_start = 0
    /\ last_position = 0
    /\ past_pd_threshold = FALSE
    /\ data = <<>>
    /\ log = <<>>
    /\ sink = <<>>
    /\ err = "none"

CfgSpec == CfgInit /\ [][SelNext]_vars

-----------------------------------------------------------------------------
(* Vocabulary of the properties *)

LastCall == log[Len(log)]

MotionIndices == {i \in 1..Len(log) : log[i].call = "set_position"}

FailedMotionIndices == {i \in MotionIndices : log[i].res \in Failures}

\* a stop was awaited after the first call of the run
FinalStopIssued == Len(log) >= 2 /\ LastCall.call = "set_stop"

\* this step is a call of the selector from the loop
IsLoopCall == pc = "loop" /\ pc' = "command"

PhaseRank(ph) ==
    CASE ph = "hold_zero" -> 1
      [] ph = "feedforward_push" -> 2
      [] ph = "position_target" -> 3
      [] ph = "torque_limited_reset" -> 4
      [] OTHER -> 0

-----------------------------------------------------------------------------
(* Properties of main() and of the selector *)

\* C1: whenever a run of main() has completed (returned, or raised to its
\* caller after a failed or cancelled controller call), a stop command was
\* awaited on the controller after all other calls of the run.
C1_FinalStopOnEveryExit ==
    pc = "done" => FinalStopIssued

\* a run cancelled while a set_position was outstanding has completed
C1_Witness ==
    /\ pc = "done"
    /\ \E i \in MotionIndices : log[i].res = "cancel"
    /\ FinalStopIssued

\* C2: the telemetry sequence is handed to the sink exactly once per run,
\* at run end and not before, also when a controller call has failed.
C2_FlushedExactlyOnce ==
    /\ pc = "done" => Len(sink) = 1
    /\ pc # "done" => Len(sink) = 0

\* C3: when the set_position of iteration k has failed and the error has
\* reached the caller, a final stop was issued and the k-1 samples of the
\* iterations before it were flushed.
C3_FailureFlushesPrefix ==
    (pc = "done" /\ FailedMotionIndices # {}) =>
        /\ FinalStopIssued
        /\ Len(sink) = 1
        /\ sink[1].samples = data
        /\ Len(sink[1].samples) = Cardinality(MotionIndices) - 1

\* C4: every selector call with elapsed time at or after t_reset commands
\* position 0 under the torque limit reset_torque.
C4_ResetFromTReset ==
    (pc = "selector" /\ log # <<>> /\ time_since_start >= cfg.t_reset) =>
        /\ LastCall.cmd.phase = "torque_limited_reset"
        /\ LastCall.cmd.position = <<0>>
        /\ LastCall.cmd.maximum_torque = cfg.reset_torque

\* C5: a selector call with elapsed time before t_begin commands position 0
\* with the configured gains and torque limit maximum_torque, whatever the
\* position and the latch, and leaves the latch as it was.
C5_HoldZeroBeforeTBegin ==
    [][(time_since_start' < cfg.t_begin) =>
         /\ log'[1].cmd.phase = "hold_zero"
         /\ log'[1].cmd.position = <<0>>
         /\ log'[1].cmd.feedforward_torque = <<>>
         /\ log'[1].cmd.kp_scale = cfg.kp_scale
         /\ log'[1].cmd.kd_scale = cfg.kd_scale
         /\ log'[1].cmd.maximum_torque = cfg.maximum_torque
         /\ past_pd_threshold' = past_pd_threshold]_vars

\* hold-zero was commanded with the latch set and the position past pd_begin
C5_Witness ==
    /\ pc = "selector"
    /\ log # <<>>
    /\ time_since_start < cfg.t_begin
    /\ past_pd_threshold
    /\ last_position >= cfg.pd_begin
    /\ LastCall.cmd.phase = "hold_zero"

C7_PhasesInOrder ==
    \A i \in MotionIndices : \A j \in MotionIndices :
        i < j => PhaseRank(log[i].cmd.phase) <= PhaseRank(log[j].cmd.phase)

\* C8: the latch is false at the start of the run, never goes from true to
\* false, and goes from false to true only in a call from the loop that
\* selects the position target, with t_begin <= elapsed time < t_reset and
\* position >= pd_begin.
C8_LatchOneWay ==
    /\ ~past_pd_threshold
    /\ [][/\ past_pd_threshold => past_pd_threshold'
          /\ (past_pd_threshold' # past_pd_threshold) =>
                /\ IsLoopCall
                /\ log'[Len(log')].cmd.phase = "position_target"
                /\ cfg.t_begin <= time_since_start'
                /\ time_since_start' < cfg.t_reset
                /\ last_position >= cfg.pd_begin]_vars

\* the call that set the latch is outstanding
C8_Witness ==
    /\ pc = "command"
    /\ past_pd_threshold
    /\ LastCall.cmd.phase = "position_target"
    /\ Cardinality({i \in MotionIndices : log[i].cmd.phase = "position_target"}) = 1

\* C10: every set_position of a run comes after an initial set_stop that
\* has returned; a run whose initial stop failed issues no set_position.
C10_StopBeforeMotion ==
    \A i \in MotionIndices :
        /\ i > 1
        /\ log[1].call = "set_stop"
        /\ log[1].res = "ok"

\* a motion command is outstanding after the initial stop returned
C10_Witness ==
    /\ pc = "command"
    /\ MotionIndices # {}
    /\ log[1].res = "ok"

\* set_position calls that have returned
CompletedMotionIndices == {i \in MotionIndices : log[i].res = "ok"}

\* the loop was left by the return of line 77
NormalExit == pc = "finally" /\ err = "none"

\* C11: the loop is left by return exactly at the first iteration whose
\* sampled elapsed time exceeds termination_time: every earlier iteration
\* sampled a time <= termination_time, no iteration starts after one that
\* sampled a later time, and the command of the last iteration has returned
\* and its sample is recorded when the loop is left.
C11_ExitAtFirstLateSample ==
    /\ \A i \in 1..(Len(data) - 1) : data[i][1] <= cfg.termination_time
    /\ (pc \in {"loop", "command"} /\ data # <<>>) =>
           data[Len(data)][1] <= cfg.termination_time
    /\ NormalExit =>
           /\ data # <<>>
           /\ data[Len(data)][1] > cfg.termination_time
           /\ data[Len(data)][1] = time_since_start
           /\ LastCall.call = "set_position"
           /\ LastCall.res = "ok"
           /\ Len(data) = Cardinality(MotionIndices)

\* the loop was left by return after several iterations
C11_Witness ==
    /\ NormalExit
    /\ Len(data) >= 3
    /\ data[Len(data)][1] > cfg.termination_time
    /\ data[Len(data) - 1][1] = cfg.termination_time

\* C12: data is empty at run start, changes only by one sample
\* (time_since_start, reported position) appended when a set_position
\* returns, and its length is always the number of set_position calls that
\* have returned.
C12_TelemetryAppendOnly ==
    /\ data = <<>>
    /\ [](Len(data) = Cardinality(CompletedMotionIndices))
    /\ [][\/ data' = data
          \/ /\ pc = "command"
             /\ Len(data') = Len(data) + 1
             /\ SubSeq(data', 1, Len(data)) = data
             /\ data'[Len(data')] = <<time_since_start, last_position'>>
             /\ Cardinality(CompletedMotionIndices') =
                    Cardinality(CompletedMotionIndices) + 1]_vars

\* a normal exit with one sample per iteration executed
C12_Witness ==
    /\ NormalExit
    /\ Len(data) >= 2
    /\ Len(data) = Cardinality(MotionIndices)
    /\ data[Len(data)] = <<time_since_start, last_position>>

\* C13: against the ramp, with the configuration of main(), an iteration
\* sampled before t_begin commands hold-zero, one sampled in [t_begin,
\* t_reset) commands feedforward-push while the last reported position is
\* below pd_begin and position-target otherwise, and one sampled in
\* [t_reset, termination_time] commands torque-limited-reset.
C13_ScenarioTrace ==
    pc = "command" =>
        LET t  == time_since_start
            ph == LastCall.cmd.phase
        IN /\ t < cfg.t_begin => ph = "hold_zero"
           /\ (cfg.t_begin <= t /\ t < cfg.t_reset /\ last_position < cfg.pd_begin)
                  => ph = "feedforward_push"
           /\ (cfg.t_begin <= t /\ t < cfg.t_reset /\ last_position >= cfg.pd_begin)
                  => ph = "position_target"
           /\ (cfg.t_reset <= t /\ t <= cfg.termination_time)
                  => ph = "torque_limited_reset"

\* C14: whenever the flush has been attempted (and in particular when it
\* has failed), the final stop was awaited before it and has returned.
C14_StopBeforeFlush ==
    (pc = "flush" \/ sink # <<>>) =>
        /\ FinalStopIssued
        /\ LastCall.res = "ok"

\* the dump failed after the final stop was sent
C14_Witness ==
    /\ pc = "done"
    /\ err = "io"
    /\ sink # <<>>
    /\ sink[1].res = "io"
    /\ FinalStopIssued

\* C15: a selector whose configuration violates 0 <= t_begin <= t_reset <=
\* termination_time issues no motion command.
C15_InvalidConfigRejected ==
    ~ValidConfig(cfg) => MotionIndices = {}

\* C16: every selector call issues exactly one command, the one of the
\* first-match chain t < t_begin / pos < pd_begin and latch unset /
\* t < t_reset / otherwise, with the query flag set.
C16_FirstMatchChain ==
    [][LET t   == time_since_start'
           pos == last_position'
           cmd == log'[1].cmd
       IN /\ Len(log') = 1
          /\ log'[1].call = "set_position"
          /\ cmd.query = TRUE
          /\ IF t < cfg.t_begin
             THEN /\ cmd.position = <<0>>
                  /\ cmd.feedforward_torque = <<>>
                  /\ cmd.kp_scale = cfg.kp_scale
                  /\ cmd.kd_scale = cfg.kd_scale
                  /\ cmd.maximum_torque = cfg.maximum_torque
             ELSE IF pos < cfg.pd_begin /\ ~past_pd_threshold
             THEN /\ cmd.position = <<>>
                  /\ cmd.feedforward_torque = <<cfg.torque>>
                  /\ cmd.kp_scale = 0
                  /\ cmd.kd_scale = 0
                  /\ cmd.maximum_torque = cfg.maximum_torque
             ELSE IF t < cfg.t_reset
             THEN /\ cmd.position = <<cfg.pd_target>>
                  /\ cmd.feedforward_torque = <<>>
                  /\ cmd.kp_scale = cfg.kp_scale
                  /\ cmd.kd_scale = cfg.kd_scale
                  /\ cmd.maximum_torque = cfg.maximum_torque
             ELSE /\ cmd.position = <<0>>
                  /\ cmd.feedforward_torque = <<>>
                  /\ cmd.kp_scale = cfg.kp_scale
                  /\ cmd.kd_scale = cfg.kd_scale
                  /\ cmd.maximum_torque = cfg.reset_torque]_vars

\* the fourth command was issued to a latched selector below pd_begin
C16_Witness ==
    /\ pc = "selector"
    /\ log # <<>>
    /\ past_pd_threshold
    /\ last_position < cfg.pd_begin
    /\ time_since_start >= cfg.t_reset
    /\ LastCall.cmd.maximum_torque = cfg.reset_torque
    /\ LastCall.cmd.query

\* calls on the controller that raised or were cancelled
FailedCalls == {i \in 1..Len(log) : log[i].res \in Failures}

\* C17: when every awaited call ends and the sampled clock passes the
\* deadline, the run completes; the final stop has then been issued, and if
\* every controller call returned the telemetry has been flushed.
C17_RunTerminates ==
    <>(/\ pc = "done"
       /\ FinalStopIssued
       /\ FailedCalls = {} => Len(sink) = 1)

\* a run has completed by return after the deadline, stopped and flushed
C17_Witness ==
    /\ pc = "done"
    /\ err = "none"
    /\ Len(data) >= 2
    /\ data[Len(data)][1] > cfg.termination_time
    /\ FinalStopIssued
    /\ Len(sink) = 1

\* calls on the controller that have not ended
PendingIndices == {i \in 1..Len(log) : log[i].res = "pending"}

\* C18: at most one call on the controller is outstanding, it is the last
\* one issued and main() is suspended in it; a new call is issued, and the
\* clock sampled, only when no call is outstanding.
C18_OneOutstandingExchange ==
    /\ [](/\ Cardinality(PendingIndices) <= 1
          /\ PendingIndices # {} =>
                /\ PendingIndices = {Len(log)}
                /\ pc \in {"init_stop", "command", "final_stop"})
    /\ [][/\ Len(log') > Len(log) => PendingIndices = {}
          /\ time_since_start' # time_since_start => PendingIndices = {}]_vars

\* the final stop is outstanding after a cancelled motion command
C18_Witness ==
    /\ pc = "final_stop"
    /\ PendingIndices = {Len(log)}
    /\ Len(log) >= 4
    /\ log[Len(log) - 1].call = "set_position"
    /\ log[Len(log) - 1].res = "cancel"

\* the position the last response reported, 0.0 before the first response
LastReported == IF data = <<>> THEN 0 ELSE data[Len(data)][2]

\* C19: each call of the selector from the loop is made with the position
\* reported in the response to the previous iteration's command (0.0 in the
\* first iteration), and last_position changes only when a set_position
\* returns, to the position it reports.
C19_OneIterationLag ==
    [][/\ IsLoopCall =>
             /\ last_position = LastReported
             /\ log'[Len(log')].cmd =
                    TorqueToPD(cfg, LastReported, time_since_start',
                               past_pd_threshold).cmd
       /\ last_position' # last_position =>
             /\ pc = "command"
             /\ log'[Len(log')].res = "ok"
             /\ Len(data') = Len(data) + 1
             /\ last_position' = data'[Len(data')][2]]_vars

\* the selector was called with the position of the previous response
C19_Witness ==
    /\ pc = "command"
    /\ Len(data) >= 2
    /\ last_position = data[Len(data)][2]
    /\ last_position # data[Len(data) - 1][2]
    /\ last_position >= cfg.pd_begin
    /\ LastCall.cmd.phase = "position_target"

\* main() has left the loop
LoopLeft == pc \in {"finally", "final_stop", "flush", "done"}

StopIndices == {i \in 1..Len(log) : log[i].call = "set_stop"}

\* C20: once the loop is left it is not entered again and no set_position
\* is issued; a failed set_position is followed by nothing but the final
\* stop; the final stop is issued once and is the last call of the run.
C20_NoMotionAfterLoop ==
    /\ [](/\ \A i \in FailedMotionIndices : \A j \in (i + 1)..Len(log) :
                log[j].call = "set_stop" /\ j = Len(log)
          /\ \A i \in StopIndices : i = 1 \/ i = Len(log)
          /\ pc = "done" => LastCall.call = "set_stop")
    /\ [][LoopLeft => /\ LoopLeft'
                      /\ MotionIndices' = MotionIndices]_vars

\* a run whose second command failed has completed with one final stop
C20_Witness ==
    /\ pc = "done"
    /\ Cardinality(MotionIndices) = 2
    /\ FailedMotionIndices = {3}
    /\ StopIndices = {1, 4}
    /\ Len(log) = 4

====
